---- MODULE Spec2Model ----
(***************************************************************************)
(* Model of hack/docs/metrics_gen/main.go: the generator that scans Go     *)
(* sources for Prometheus metric declarations and renders metrics.md.      *)
(* Strings are TLA+ strings (sequences of characters); a syntax tree is a  *)
(* record with a field "kind" naming the go/ast node type.                 *)
(***************************************************************************)
EXTENDS Integers, Sequences, FiniteSets, TLC

(***************************************************************************)
(* Strings: the functions of package strings and lo that main.go calls.    *)
(***************************************************************************)

\* Characters in ascending byte order; Ord gives the order Go's string
\* comparison uses.
ByteOrder == " \"'()+,-./0123456789:ABCDEFGHIJKLMNOPQRSTUVWXYZ[]_^abcdefghijklmnopqrstuvwxyz"

\* The backquote character.  A TLA+ string cannot hold it, so the character
\* ^ stands for it; ByteOrder places it where the backquote belongs.
Backquote == "^"

Ord(c) == CHOOSE n \in 1..Len(ByteOrder) : SubSeq(ByteOrder, n, n) = c

Lower == "abcdefghijklmnopqrstuvwxyz"
Upper == "ABCDEFGHIJKLMNOPQRSTUVWXYZ"

CharAt(s, n) == SubSeq(s, n, n)

\* i.qualifiedName() > j.qualifiedName(): bytewise lexicographic order
StrGreater(a, b) ==
    \E k \in 1..Len(a) :
        /\ k - 1 <= Len(b)
        /\ SubSeq(a, 1, k - 1) = SubSeq(b, 1, k - 1)
        /\ (k > Len(b) \/ Ord(CharAt(a, k)) > Ord(CharAt(b, k)))

HasPrefix(s, prefix) ==
    Len(s) >= Len(prefix) /\ SubSeq(s, 1, Len(prefix)) = prefix

TrimPrefix(s, prefix) ==
    IF HasPrefix(s, prefix) THEN SubSeq(s, Len(prefix) + 1, Len(s)) ELSE s

RECURSIVE TrimLeft(_, _)
TrimLeft(s, c) ==
    IF s # "" /\ Head(s) = c THEN TrimLeft(Tail(s), c) ELSE s

RECURSIVE TrimRight(_, _)
TrimRight(s, c) ==
    IF s # "" /\ CharAt(s, Len(s)) = c
    THEN TrimRight(SubSeq(s, 1, Len(s) - 1), c) ELSE s

\* strings.Trim(s, cutset) and strings.TrimFunc(s, f) for the one character c
Trim(s, c) == TrimRight(TrimLeft(s, c), c)

RECURSIVE ToUpper(_)
ToUpper(s) ==
    IF s = "" THEN ""
    ELSE LET c == Head(s)
             up == IF \E n \in 1..Len(Lower) : CharAt(Lower, n) = c
                   THEN CharAt(Upper, CHOOSE n \in 1..Len(Lower) : CharAt(Lower, n) = c)
                   ELSE c
         IN  up \o ToUpper(Tail(s))

\* strings.Split(s, sep) for a one-character separator
RECURSIVE SplitFrom(_, _, _)
SplitFrom(s, sep, word) ==
    IF s = "" THEN <<word>>
    ELSE IF Head(s) = sep THEN <<word>> \o SplitFrom(Tail(s), sep, "")
    ELSE SplitFrom(Tail(s), sep, word \o Head(s))

Split(s, sep) == SplitFrom(s, sep, "")

RECURSIVE Join(_, _)
Join(words, sep) ==
    IF words = <<>> THEN ""
    ELSE IF Len(words) = 1 THEN words[1]
    ELSE words[1] \o sep \o Join(Tail(words), sep)

\* lo.Compact: the non-empty strings, in order
RECURSIVE Compact(_)
Compact(words) ==
    IF words = <<>> THEN <<>>
    ELSE IF Head(words) = "" THEN Compact(Tail(words))
    ELSE <<Head(words)>> \o Compact(Tail(words))

Contains(list, s) == \E n \in 1..Len(list) : list[n] = s

(***************************************************************************)
(* The tables of main.go.                                                  *)
(***************************************************************************)

stableMetrics ==
    <<"controller_runtime", "aws_sdk_go", "client_go", "leader_election", "interruption", "cluster_state", "workqueue", "karpenter_build_info", "karpenter_nodepool_usage", "karpenter_nodepool_limit",
      "karpenter_nodeclaims_terminated_total", "karpenter_nodeclaims_created_total", "karpenter_nodes_terminated_total", "karpenter_nodes_created_total", "karpenter_pods_startup_duration_seconds",
      "karpenter_scheduler_scheduling_duration_seconds", "karpenter_provisioner_scheduling_duration_seconds", "karpenter_nodepool_allowed_disruptions", "karpenter_voluntary_disruption_decisions_total">>

betaMetrics ==
    <<"status_condition", "ec2nodeclass", "nodeclaim", "node", "nodepool", "cloudprovider", "cloudprovider_batcher", "karpenter_nodeclaims_termination_duration_seconds", "karpenter_nodeclaims_instance_termination_duration_seconds",
      "karpenter_nodes_total_pod_requests", "karpenter_nodes_total_pod_limits", "karpenter_nodes_total_daemon_requests", "karpenter_nodes_total_daemon_limits", "karpenter_nodes_termination_duration_seconds",
      "karpenter_nodes_system_overhead", "karpenter_nodes_allocatable", "karpenter_pods_state", "karpenter_scheduler_queue_depth", "karpenter_voluntary_disruption_queue_failures_total",
      "karpenter_voluntary_disruption_decision_evaluation_duration_seconds", "karpenter_voluntary_disruption_eligible_nodes", "karpenter_voluntary_disruption_consolidation_timeouts_total">>

deprecatedMetrics ==
    <<"operator_status_condition_transitions_total", "operator_status_condition_transition_seconds", "operator_status_condition_current_status_seconds", "operator_status_condition_count",
      "operator_termination_duration_seconds", "operator_termination_current_time_seconds">>

dropPrefixes == <<"rest_client", "certwatcher_read", "controller_runtime_webhook">>

foldPrefixes == <<"controller_runtime", "aws_sdk_go", "client_go", "leader_election">>

subsystemMap ==
    [node |-> "Nodes", nodes |-> "Nodes", nodeclaim |-> "Nodeclaims",
     nodeclaims |-> "Nodeclaims", nodepool |-> "Nodepools", nodepools |-> "Nodepools"]

\* subSystemSortOrder[s], 0 for a subsystem the map does not list
subSystemSortOrder(s) ==
    CASE s = "" -> 100
      [] s \in {"nodepool", "nodepools"} -> 10
      [] s \in {"nodeclaims", "nodeclaim"} -> 9
      [] s \in {"nodes", "node"} -> 8
      [] s = "pods" -> 7
      [] s \in {"status_condition", "workqueue", "client_go", "aws_sdk_go"} -> 0 - 1
      [] s = "leader_election" -> 0 - 2
      [] OTHER -> 0

\* metrics.Namespace of sigs.k8s.io/karpenter/pkg/metrics
metricsNamespace == "karpenter"

identMapping ==
    ("metrics.Namespace" :> metricsNamespace) @@ ("Namespace" :> metricsNamespace) @@
    ("MetricNamespace" :> "operator") @@
    ("MetricSubsystem" :> "status_condition") @@
    ("TerminationSubsystem" :> "termination") @@
    ("WorkQueueSubsystem" :> "workqueue") @@
    ("DepthKey" :> "depth") @@
    ("AddsKey" :> "adds_total") @@
    ("QueueLatencyKey" :> "queue_duration_seconds") @@
    ("WorkDurationKey" :> "work_duration_seconds") @@
    ("UnfinishedWorkKey" :> "unfinished_work_seconds") @@
    ("LongestRunningProcessorKey" :> "longest_running_processor_seconds") @@
    ("RetriesKey" :> "retries_total") @@
    ("metrics.PodSubsystem" :> "pods") @@
    ("NodeSubsystem" :> "nodes") @@
    ("metrics.NodeSubsystem" :> "nodes") @@
    ("machineSubsystem" :> "machines") @@
    ("NodeClaimSubsystem" :> "nodeclaims") @@
    ("metrics.NodeClaimSubsystem" :> "nodeclaims") @@
    ("nodePoolSubsystem" :> "nodepools") @@
    ("metrics.NodePoolSubsystem" :> "nodepools") @@
    ("interruptionSubsystem" :> "interruption") @@
    ("deprovisioningSubsystem" :> "deprovisioning") @@
    ("voluntaryDisruptionSubsystem" :> "voluntary_disruption") @@
    ("batcherSubsystem" :> "cloudprovider_batcher") @@
    ("cloudProviderSubsystem" :> "cloudprovider") @@
    ("stateSubsystem" :> "cluster_state") @@
    ("schedulerSubsystem" :> "scheduler")

(***************************************************************************)
(* metricInfo and the value resolver.                                      *)
(***************************************************************************)

metricInfo(ns, sub, nm, hp) ==
    [namespace |-> ns, subsystem |-> sub, name |-> nm, help |-> hp]

qualifiedName(m) == Join(Compact(<<m.namespace, m.subsystem, m.name>>), "_")

\* A result of a function that may call log.Fatal: err = "" when it returned.
Ok(v) == [err |-> "", val |-> v]
Fatal(e) == [err |-> e, val |-> ""]

\* The rest of a function body after a call that may not return
Then(r, Rest(_)) == IF r.err # "" THEN r ELSE Rest(r.val)

\* getIdentMapping with a miss answered by the map's zero value and no error
getIdentMapping_missIsEmpty(identName) ==
    IF identName \in DOMAIN identMapping
    THEN Ok(identMapping[identName])
    ELSE Ok("")

getIdentMapping(identName) ==
    IF identName \in DOMAIN identMapping
    THEN Ok(identMapping[identName])
    ELSE Fatal("UnresolvedSymbol")

RECURSIVE getBinaryExpr(_)

\* One of the two switches of getBinaryExpr, on b.X and on b.Y
RECURSIVE binaryOperand(_)
binaryOperand(val) ==
    CASE val.kind = "BasicLit" -> Ok(Trim(val.Value, "\""))
      [] val.kind = "BinaryExpr" -> getBinaryExpr(val)
      [] OTHER -> Fatal("UnsupportedValueShape")

getBinaryExpr(b) ==
    Then(binaryOperand(b.X), LAMBDA x :
        Then(binaryOperand(b.Y), LAMBDA y : Ok(x \o y)))

RECURSIVE getFuncPackage(_)

\* getFuncPackage answering a selector with the selected name
getFuncPackage_selectedName(fun) ==
    CASE fun.kind = "ParenExpr" -> getFuncPackage(fun.X)
      [] fun.kind = "StarExpr" -> getFuncPackage(fun.X)
      [] fun.kind = "SelectorExpr" -> Ok(fun.Sel)
      [] fun.kind = "Ident" -> Ok(fun.Name)
      [] fun.kind = "IndexExpr" -> getFuncPackage(fun.X)
      [] fun.kind = "FuncLit" -> Ok("")
      [] OTHER -> Fatal("UnsupportedFuncExpression")

getFuncPackage(fun) ==
    CASE fun.kind = "ParenExpr" -> getFuncPackage(fun.X)
      [] fun.kind = "StarExpr" -> getFuncPackage(fun.X)
      [] fun.kind = "SelectorExpr" -> Ok(fun.X)
      [] fun.kind = "Ident" -> Ok(fun.Name)
      [] fun.kind = "IndexExpr" -> getFuncPackage(fun.X)
      [] fun.kind = "FuncLit" -> Ok("")
      [] OTHER -> Fatal("UnsupportedFuncExpression")

\* The switch on kv.Value of handleVariableDeclaration
resolveValue(val) ==
    CASE val.kind = "BasicLit" -> Ok(val.Value)
      [] val.kind = "SelectorExpr" -> getIdentMapping(val.X \o "." \o val.Sel)
      [] val.kind = "Ident" -> getIdentMapping(val.Name)
      [] val.kind = "BinaryExpr" -> getBinaryExpr(val)
      [] OTHER -> Fatal("UnsupportedValueShape")

metricKeys == {"Namespace", "Subsystem", "Name", "Help"}

\* The loop over compositeLit.Elts: the keyValuePairs map after the elements
\* elts, starting from the map kvs.
RECURSIVE scanElts(_, _)
scanElts(elts, kvs) ==
    IF elts = <<>> THEN Ok(kvs)
    ELSE IF Head(elts).kind # "KeyValueExpr" \/ Head(elts).Key \notin metricKeys
    THEN scanElts(Tail(elts), kvs)
    ELSE Then(resolveValue(Head(elts).Value), LAMBDA value :
             scanElts(Tail(elts), [kvs EXCEPT ![Head(elts).Key] = Trim(value, "\"")]))

noKeyValuePairs == [k \in metricKeys |-> ""]

\* The loop over ce.Args
RECURSIVE scanArgs(_)
scanArgs(args) ==
    IF args = <<>> THEN Ok(<<>>)
    ELSE IF Head(args).kind # "CompositeLit" THEN scanArgs(Tail(args))
    ELSE Then(scanElts(Head(args).Elts, noKeyValuePairs), LAMBDA kvs :
             Then(scanArgs(Tail(args)), LAMBDA rest :
                 Ok(<<metricInfo(kvs["Namespace"], kvs["Subsystem"],
                                 kvs["Name"], kvs["Help"])>> \o rest)))

constructorPackages == {"prometheus", "opmetrics"}

\* The loop over vs.Values: v is a GenDecl with token VAR, given by the
\* initializer expressions of its specs.
RECURSIVE handleVariableDeclaration(_)
handleVariableDeclaration(values) ==
    IF values = <<>> THEN Ok(<<>>)
    ELSE IF Head(values).kind # "CallExpr"
    THEN handleVariableDeclaration(Tail(values))
    ELSE Then(getFuncPackage(Head(values).Fun), LAMBDA funcPkg :
             IF funcPkg \notin constructorPackages
             THEN handleVariableDeclaration(Tail(values))
             ELSE Then(scanArgs(Head(values).Args), LAMBDA found :
                      Then(handleVariableDeclaration(Tail(values)), LAMBDA rest :
                          Ok(found \o rest))))

\* One file's top-level declarations: only *ast.GenDecl with token VAR is
\* inspected.
RECURSIVE scanDecls(_)
scanDecls(decls) ==
    IF decls = <<>> THEN Ok(<<>>)
    ELSE IF Head(decls).kind # "GenDecl" \/ Head(decls).Tok # "VAR"
    THEN scanDecls(Tail(decls))
    ELSE Then(handleVariableDeclaration(Head(decls).Values), LAMBDA found :
             Then(scanDecls(Tail(decls)), LAMBDA rest : Ok(found \o rest)))

\* The files of the packages, in the order the range loops enumerate them.
RECURSIVE getMetricsFromPackages(_)
getMetricsFromPackages(files) ==
    IF files = <<>> THEN Ok(<<>>)
    ELSE Then(scanDecls(Head(files).Decls), LAMBDA found :
             Then(getMetricsFromPackages(Tail(files)), LAMBDA rest : Ok(found \o rest)))

(***************************************************************************)
(* Pattern synthesizer.                                                    *)
(***************************************************************************)

crdKinds == <<"nodeclaim", "nodepool", "ec2nodeclass", "node">>

statusMetrics(kind) ==
    << metricInfo("operator", kind, "status_condition_transitions_total",
                  "The count of transitions of a " \o kind \o ", type and status."),
       metricInfo("operator", kind, "status_condition_transition_seconds",
                  "The amount of time a condition was in a given state before transitioning."),
       metricInfo("operator", kind, "status_condition_current_status_seconds",
                  "The current amount of time in seconds that a status condition has been in a specific state."),
       metricInfo("operator", kind, "status_condition_count",
                  "The number of a condition for a " \o kind \o ", type and status.") >>

terminationMetrics(kind) ==
    << metricInfo("operator", kind, "termination_current_time_seconds",
                  "The current amount of time in seconds that a " \o kind \o " has been in terminating state."),
       metricInfo("operator", kind, "termination_duration_seconds",
                  "The amount of time taken by a " \o kind \o " to terminate completely.") >>

kindMetrics(kind) ==
    statusMetrics(kind) \o terminationMetrics(kind) \o
    (IF kind = "node"
     THEN <<metricInfo("operator", "node", "event_total",
                       "The total number of events of a given type and reason for a node")>>
     ELSE <<>>)

legacyStatusMetrics ==
    << metricInfo("operator", "status_condition", "transitions_total",
                  "The count of transitions of a given object, type and status."),
       metricInfo("operator", "status_condition", "transition_seconds",
                  "The amount of time a condition was in a given state before transitioning."),
       metricInfo("operator", "status_condition", "current_status_seconds",
                  "The current amount of time in seconds that a status condition has been in a specific state."),
       metricInfo("operator", "status_condition", "count",
                  "The number of a condition for a given object, type and status.") >>

legacyTerminationMetrics ==
    << metricInfo("operator", "termination", "duration_seconds",
                  "The amount of time taken by an object to terminate completely."),
       metricInfo("operator", "termination", "current_time_seconds",
                  "The current amount of time in seconds that an object has been in terminating state.") >>

clientGoMetrics ==
    << metricInfo("", "", "client_go_request_total",
                  "Number of HTTP requests, partitioned by status code and method."),
       metricInfo("", "", "client_go_request_duration_seconds",
                  "Request latency in seconds. Broken down by verb, group, version, kind, and subresource.") >>

\* The catalog put in front of the scanned records
addPatternBasedMetrics_catalogFirst(allMetrics) ==
    kindMetrics(crdKinds[1]) \o kindMetrics(crdKinds[2])
    \o kindMetrics(crdKinds[3]) \o kindMetrics(crdKinds[4])
    \o legacyStatusMetrics \o legacyTerminationMetrics \o clientGoMetrics
    \o allMetrics

addPatternBasedMetrics(allMetrics) ==
    allMetrics
    \o kindMetrics(crdKinds[1]) \o kindMetrics(crdKinds[2])
    \o kindMetrics(crdKinds[3]) \o kindMetrics(crdKinds[4])
    \o legacyStatusMetrics \o legacyTerminationMetrics \o clientGoMetrics

(***************************************************************************)
(* Normalizer.                                                             *)
(***************************************************************************)

\* The key function given to lo.UniqBy
dedupeKey(m) == m.namespace \o "/" \o m.subsystem \o "/" \o m.name

\* lo.UniqBy: the first element of each key, in order
RECURSIVE UniqBy(_, _)
UniqBy(list, seen) ==
    IF list = <<>> THEN <<>>
    ELSE IF dedupeKey(Head(list)) \in seen THEN UniqBy(Tail(list), seen)
    ELSE <<Head(list)>> \o UniqBy(Tail(list), seen \cup {dedupeKey(Head(list))})

dedupe(allMetrics) == UniqBy(allMetrics, {})

\* lo.Reject for one prefix
RECURSIVE Reject(_, _)
Reject(list, prefix) ==
    IF list = <<>> THEN <<>>
    ELSE IF HasPrefix(Head(list).name, prefix) THEN Reject(Tail(list), prefix)
    ELSE <<Head(list)>> \o Reject(Tail(list), prefix)

RECURSIVE dropMetrics(_, _)
dropMetrics(list, prefixes) ==
    IF prefixes = <<>> THEN list
    ELSE dropMetrics(Reject(list, Head(prefixes)), Tail(prefixes))

\* The loop over the noise prefixes started at the second one
dropNoise_skipsFirstPrefix(list) == dropMetrics(list, Tail(dropPrefixes))

\* The loop over the noise prefixes
dropNoise(list) == dropMetrics(list, dropPrefixes)

\* The body of the inner loop without the test for an empty subsystem
foldOne_anySubsystem(m, subsystem) ==
    IF HasPrefix(m.name, subsystem \o "_")
    THEN [m EXCEPT !.subsystem = subsystem,
                   !.name = TrimPrefix(m.name, subsystem \o "_")]
    ELSE m

\* The body of the inner loop for one record and one prefix
foldOne(m, subsystem) ==
    IF m.subsystem = "" /\ HasPrefix(m.name, subsystem \o "_")
    THEN [m EXCEPT !.subsystem = subsystem,
                   !.name = TrimPrefix(m.name, subsystem \o "_")]
    ELSE m

\* The outer loop over the prefixes, each applied to every record
RECURSIVE foldMetrics(_, _)
foldMetrics(list, prefixes) ==
    IF prefixes = <<>> THEN list
    ELSE foldMetrics([n \in 1..Len(list) |-> foldOne(list[n], Head(prefixes))],
                     Tail(prefixes))

(***************************************************************************)
(* Renderer: order.                                                        *)
(***************************************************************************)

\* The less function with the qualified names compared the other way round
bySubsystem_ascendingName(lhs, rhs) ==
    IF subSystemSortOrder(lhs.subsystem) # subSystemSortOrder(rhs.subsystem)
    THEN subSystemSortOrder(lhs.subsystem) > subSystemSortOrder(rhs.subsystem)
    ELSE StrGreater(qualifiedName(rhs), qualifiedName(lhs))

\* The less function bySubsystem returns
bySubsystem(lhs, rhs) ==
    IF subSystemSortOrder(lhs.subsystem) # subSystemSortOrder(rhs.subsystem)
    THEN subSystemSortOrder(lhs.subsystem) > subSystemSortOrder(rhs.subsystem)
    ELSE StrGreater(qualifiedName(lhs), qualifiedName(rhs))

\* x placed in the ordered list behind every element that is not behind it
RECURSIVE InsertOrdered(_, _)
InsertOrdered(sorted, x) ==
    IF sorted = <<>> THEN <<x>>
    ELSE IF bySubsystem(x, Head(sorted)) THEN <<x>> \o sorted
    ELSE <<Head(sorted)>> \o InsertOrdered(Tail(sorted), x)

\* The list in order, equal elements keeping their order
RECURSIVE Ordered(_)
Ordered(list) ==
    IF list = <<>> THEN <<>>
    ELSE InsertOrdered(Ordered(SubSeq(list, 1, Len(list) - 1)), list[Len(list)])

Remove(list, n) == SubSeq(list, 1, n - 1) \o SubSeq(list, n + 1, Len(list))

\* sort.Slice is not stable: elements that compare equal may come out in any
\* order.  TieOrders(sorted) is every arrangement of an ordered list that
\* permutes only elements comparing equal.
RECURSIVE TieOrders(_)
TieOrders(sorted) ==
    IF \A n \in 1..(Len(sorted) - 1) : bySubsystem(sorted[n], sorted[n + 1])
    THEN {sorted}
    ELSE LET k == CHOOSE n \in 1..(Len(sorted) - 1) :
                      /\ ~bySubsystem(sorted[n], sorted[n + 1])
                      /\ \A m \in 1..(n - 1) : bySubsystem(sorted[m], sorted[m + 1])
             group == {n \in k..Len(sorted) : ~bySubsystem(sorted[k], sorted[n])}
         IN  UNION {{SubSeq(sorted, 1, k - 1) \o <<sorted[n]>> \o rest :
                        rest \in TieOrders(Remove(SubSeq(sorted, k, Len(sorted)), n - k + 1))} :
                    n \in group}

sortSlice(allMetrics) == TieOrders(Ordered(allMetrics))

(***************************************************************************)
(* Renderer: the document.  The output is the sequence of writes to the    *)
(* file, one element per Fprintf/Fprintln call: what the call is for and   *)
(* the text it writes.                                                     *)
(***************************************************************************)

Write(what, text) == [what |-> what, text |-> text]

preamble ==
    << Write("frontmatter", "---\ntitle: \"Metrics\"\nlinkTitle: \"Metrics\"\nweight: 7\n\ndescription: >\n  Inspect Karpenter Metrics\n---\n"),
       Write("generated", "<!-- this document is generated from hack/docs/metrics_gen_docs.go -->\n"),
       Write("intro", "Karpenter makes several metrics available in Prometheus format to allow monitoring cluster provisioning status. These metrics are available by default at ^karpenter.kube-system.svc.cluster.local:8080/metrics^ configurable via the ^METRICS_PORT^ environment variable documented [here](../settings)\n") >>

\* The function given to lo.Map: s[0:1] panics on the empty string
titleWord(s) ==
    IF s = "sdk" \/ s = "aws" THEN Ok(ToUpper(s))
    ELSE IF Len(s) < 1 THEN Fatal("panic")
    ELSE Ok(ToUpper(SubSeq(s, 1, 1)) \o SubSeq(s, 2, Len(s)))

RECURSIVE titleWords(_)
titleWords(words) ==
    IF words = <<>> THEN Ok(<<>>)
    ELSE LET w == titleWord(Head(words))
         IN  IF w.err # "" THEN w
             ELSE LET rest == titleWords(Tail(words))
                  IN  IF rest.err # "" THEN rest
                      ELSE Ok(<<w.val>> \o rest.val)

\* subsystemTitle for a non-empty subsystem
subsystemTitle(subsystem) ==
    IF subsystem \in DOMAIN subsystemMap THEN Ok(subsystemMap[subsystem])
    ELSE LET words == titleWords(Split(subsystem, "_"))
         IN  IF words.err # "" THEN words ELSE Ok(Join(words.val, " "))

\* The switch with the beta case moved to the front
stabilityLevel_betaFirst(metric) ==
    IF Contains(betaMetrics, metric.subsystem) \/ Contains(betaMetrics, qualifiedName(metric))
    THEN "BETA"
    ELSE IF Contains(deprecatedMetrics, metric.subsystem) \/ Contains(deprecatedMetrics, qualifiedName(metric))
    THEN "DEPRECATED"
    ELSE IF Contains(stableMetrics, metric.subsystem) \/ Contains(stableMetrics, qualifiedName(metric))
    THEN "STABLE"
    ELSE "ALPHA"

\* The switch that chooses the stability level
stabilityLevel(metric) ==
    IF Contains(deprecatedMetrics, metric.subsystem) \/ Contains(deprecatedMetrics, qualifiedName(metric))
    THEN "DEPRECATED"
    ELSE IF Contains(stableMetrics, metric.subsystem) \/ Contains(stableMetrics, qualifiedName(metric))
    THEN "STABLE"
    ELSE IF Contains(betaMetrics, metric.subsystem) \/ Contains(betaMetrics, qualifiedName(metric))
    THEN "BETA"
    ELSE "ALPHA"

\* The writes for one record once its title is known
metricBlock(metric) ==
    IF qualifiedName(metric) # ""
    THEN << Write("metric", "### " \o Backquote \o qualifiedName(metric) \o Backquote \o "\n"),
            Write("help", metric.help \o "\n"),
            Write("stability", "- Stability Level: " \o stabilityLevel(metric) \o "\n"),
            Write("blank", "\n") >>
    ELSE <<>>

\* The loop over allMetrics: the writes made, and err = "panic" when the loop
\* stopped in the middle (the writes made before it stay in the file).
RECURSIVE renderMetrics(_, _, _)
renderMetrics(metrics, previousTitle, written) ==
    IF metrics = <<>> THEN [err |-> "", val |-> written]
    ELSE LET metric == Head(metrics)
         IN  IF metric.subsystem = ""
             THEN renderMetrics(Tail(metrics), previousTitle, written \o metricBlock(metric))
             ELSE LET title == subsystemTitle(metric.subsystem)
                  IN  IF title.err # "" THEN [err |-> title.err, val |-> written]
                      ELSE IF title.val # previousTitle
                      THEN renderMetrics(Tail(metrics), title.val,
                               written \o << Write("title", "## " \o title.val \o " Metrics\n"),
                                             Write("blank", "\n") >>
                                       \o metricBlock(metric))
                      ELSE renderMetrics(Tail(metrics), previousTitle,
                               written \o metricBlock(metric))

(***************************************************************************)
(* Syntax trees (go/ast) and the source files the runs read.               *)
(***************************************************************************)

BasicLit(value) == [kind |-> "BasicLit", Value |-> value]
Ident(name) == [kind |-> "Ident", Name |-> name]
SelectorExpr(x, sel) == [kind |-> "SelectorExpr", X |-> x, Sel |-> sel]
BinaryExpr(x, y) == [kind |-> "BinaryExpr", X |-> x, Y |-> y]
ParenExpr(x) == [kind |-> "ParenExpr", X |-> x]
KeyValueExpr(key, value) == [kind |-> "KeyValueExpr", Key |-> key, Value |-> value]
CompositeLit(elts) == [kind |-> "CompositeLit", Elts |-> elts]
StarExpr(x) == [kind |-> "StarExpr", X |-> x]
IndexExpr(x, index) == [kind |-> "IndexExpr", X |-> x, Index |-> index]
FuncLit == [kind |-> "FuncLit"]
ArrayType(elt) == [kind |-> "ArrayType", Elt |-> elt]
CallExpr(fun, args) == [kind |-> "CallExpr", Fun |-> fun, Args |-> args]
VarDecl(values) == [kind |-> "GenDecl", Tok |-> "VAR", Values |-> values]
SourceFile(pkg, parses, decls) == [Pkg |-> pkg, Parses |-> parses, Decls |-> decls]

\* The token of an interpreted string literal
Str(s) == BasicLit("\"" \o s \o "\"")

\* var m = prometheus.NewCounter(prometheus.CounterOpts{elts})
NewCounter(elts) ==
    VarDecl(<<CallExpr(SelectorExpr("prometheus", "NewCounter"), <<CompositeLit(elts)>>)>>)

\* var m = opmetrics.NewPrometheusCounter(crmetrics.Registry,
\*             prometheus.CounterOpts{elts}, []string{"nodepool"})
NewPrometheusCounter(elts) ==
    VarDecl(<<CallExpr(SelectorExpr("opmetrics", "NewPrometheusCounter"),
                       <<SelectorExpr("crmetrics", "Registry"), CompositeLit(elts),
                         CompositeLit(<<Str("nodepool")>>)>>)>>)

Literals(ns, sub, nm, hp) ==
    (IF ns = "" THEN <<>> ELSE <<KeyValueExpr("Namespace", Str(ns))>>) \o
    (IF sub = "" THEN <<>> ELSE <<KeyValueExpr("Subsystem", Str(sub))>>) \o
    <<KeyValueExpr("Name", Str(nm)), KeyValueExpr("Help", Str(hp))>>

Files ==
    << \* 1: symbols of the table, and a label list as last argument
       SourceFile("metrics", TRUE,
           <<NewPrometheusCounter(<<KeyValueExpr("Namespace", SelectorExpr("metrics", "Namespace")),
                                    KeyValueExpr("Subsystem", SelectorExpr("metrics", "NodeSubsystem")),
                                    KeyValueExpr("Name", Str("created_total")),
                                    KeyValueExpr("Help", Str("Number of nodes created.")),
                                    KeyValueExpr("Buckets", Ident("buckets"))>>)>>),
       \* 2: the identity of 1 with another help text
       SourceFile("metrics", TRUE,
           <<NewCounter(Literals("karpenter", "nodes", "created_total", "Nodes created in total."))>>),
       \* 3: the qualified name of 1 without a subsystem
       SourceFile("metrics", TRUE,
           <<NewCounter(Literals("karpenter", "", "nodes_created_total", "Created nodes."))>>),
       \* 4, 5: one library metric, declared without and with its subsystem
       SourceFile("metrics", TRUE,
           <<NewCounter(Literals("", "", "client_go_x", "X of the client."))>>),
       SourceFile("metrics", TRUE,
           <<NewCounter(Literals("", "client_go", "x", "X of client-go."))>>),
       \* 6, 7: names around the noise prefix rest_client
       SourceFile("metrics", TRUE,
           <<NewCounter(Literals("", "", "client_go_rest_client_x", "Requests of the client."))>>),
       SourceFile("metrics", TRUE,
           <<NewCounter(Literals("", "", "rest_client_requests_total", "Number of HTTP requests."))>>),
       \* 8: a subsystem-less name with a prefix that is not folded
       SourceFile("metrics", TRUE,
           <<NewCounter(Literals("", "", "workqueue_depth", "Current depth of workqueue"))>>),
       \* 9: an identifier the table does not map
       SourceFile("metrics", TRUE,
           <<NewCounter(<<KeyValueExpr("Subsystem", Ident("unmappedSubsystem")),
                          KeyValueExpr("Name", Str("a")), KeyValueExpr("Help", Str("A."))>>)>>),
       \* 10: Name: "a" + ("b" + "c")
       SourceFile("metrics", TRUE,
           <<NewCounter(<<KeyValueExpr("Name", BinaryExpr(Str("a"), ParenExpr(BinaryExpr(Str("b"), Str("c"))))),
                          KeyValueExpr("Help", Str("Right."))>>)>>),
       \* 11: Name: ("a" + "b") + "c"
       SourceFile("metrics", TRUE,
           <<NewCounter(<<KeyValueExpr("Name", BinaryExpr(ParenExpr(BinaryExpr(Str("a"), Str("b"))), Str("c"))),
                          KeyValueExpr("Help", Str("Left."))>>)>>),
       \* 12: Name: "a" + "b" + "c"
       SourceFile("metrics", TRUE,
           <<NewCounter(<<KeyValueExpr("Name", BinaryExpr(BinaryExpr(Str("a"), Str("b")), Str("c"))),
                          KeyValueExpr("Help", Str("Chain."))>>)>>),
       \* 13: Name: Namespace + "_x"
       SourceFile("metrics", TRUE,
           <<NewCounter(<<KeyValueExpr("Name", BinaryExpr(Ident("Namespace"), Str("_x"))),
                          KeyValueExpr("Help", Str("Symbol."))>>)>>),
       \* 14: a subsystem with an empty last word
       SourceFile("metrics", TRUE,
           <<NewCounter(Literals("karpenter", "cluster_", "x", "Trailing."))>>),
       \* 15: a file that does not parse
       SourceFile("metrics", FALSE, <<>>),
       \* 16: a test package
       SourceFile("metrics_test", TRUE,
           <<NewCounter(Literals("karpenter", "nodes", "fake_total", "Fake."))>>),
       \* 17: a subsystem-less name that starts with one folding prefix and
       \* goes on with another
       SourceFile("metrics", TRUE,
           <<NewCounter(Literals("", "", "controller_runtime_client_go_y", "Y of the client."))>>),
       \* 18: an unlisted subsystem the catalog has under another namespace
       SourceFile("metrics", TRUE,
           <<NewCounter(Literals("karpenter", "termination", "x", "X of termination."))>>),
       \* 19: an identity of the catalog with another help text
       SourceFile("metrics", TRUE,
           <<NewCounter(Literals("operator", "node", "event_total", "Scanned events."))>>),
       \* 20: calls of a closure, of another package's function, of a function
       \* of the package itself, and (*prometheus.NewCounter[T])(...)
       SourceFile("metrics", TRUE,
           <<VarDecl(<<CallExpr(FuncLit,
                               <<CompositeLit(Literals("", "", "closure", "Closure."))>>)>>),
             VarDecl(<<CallExpr(SelectorExpr("other", "NewCounter"),
                               <<CompositeLit(Literals("", "", "other", "Other."))>>)>>),
             VarDecl(<<CallExpr(Ident("NewCounter"),
                               <<CompositeLit(Literals("", "", "bare", "Bare."))>>)>>),
             VarDecl(<<CallExpr(ParenExpr(StarExpr(IndexExpr(SelectorExpr("prometheus", "NewCounter"), Ident("T")))),
                               <<CompositeLit(Literals("karpenter", "pods", "wrapped", "Wrapped."))>>)>>)>>),
       \* 21: Help: a raw string literal, and Help: "\"Quoted\""
       SourceFile("metrics", TRUE,
           <<NewCounter(<<KeyValueExpr("Name", Str("raw_total")),
                          KeyValueExpr("Help", BasicLit(Backquote \o "Raw help." \o Backquote))>>),
             NewCounter(<<KeyValueExpr("Name", Str("quoted_total")),
                          KeyValueExpr("Help", BasicLit("\"\\\"Quoted\\\"\""))>>)>>),
       \* 22: a subsystem-less name that is a folding prefix and nothing more
       SourceFile("metrics", TRUE,
           <<NewCounter(Literals("", "", "client_go_", "Empty remainder."))>>),
       \* 23: var b = []byte("x")
       SourceFile("metrics", TRUE,
           <<VarDecl(<<CallExpr(ArrayType(Ident("byte")), <<Str("x")>>)>>)>>),
       \* 24, 25: fields that hold the character "/"
       SourceFile("metrics", TRUE,
           <<NewCounter(Literals("", "a/b", "c", "First."))>>),
       SourceFile("metrics", TRUE,
           <<NewCounter(Literals("", "a", "b/c", "Second."))>>),
       \* 26: the identity of 19 with a third help text
       SourceFile("metrics", TRUE,
           <<NewCounter(Literals("operator", "node", "event_total", "Later events."))>>) >>

(***************************************************************************)
(* The runs of main.                                                       *)
(***************************************************************************)

\* Bounds of the inputs: the number of root arguments and the number of
\* source files under all of them.
MaxRoots == 2
MaxFiles == 2

\* A root is the list of its files (indices of Files) in ascending order; the
\* order a run enumerates them in is chosen by ScanRoot.
RootsOfSize(n) ==
    {r \in [1..n -> 1..Len(Files)] : \A a, b \in 1..n : a < b => r[a] <= r[b]}

RECURSIVE RootLists(_, _)
RootLists(k, f) ==
    IF k = 0 THEN {<<>>}
    ELSE UNION {UNION {{<<r>> \o rest : rest \in RootLists(k - 1, f - n)} :
                       r \in RootsOfSize(n)} :
                n \in 1..(f - (k - 1))}

Inputs == UNION {RootLists(k, MaxFiles) : k \in 1..MaxRoots}

VARIABLES
    roots,          \* the root arguments: flag.Arg(0) .. flag.Arg(NArg-2)
    run,            \* 1 for the first run of the program, 2 for the second
    pc,             \* the position of main, or how the process ended
    i,              \* the loop variable of the loop over the roots
    allMetrics,     \* the variable allMetrics of main
    file,           \* the file at the output path
    created,        \* whether this run has called os.Create on the path
    err,            \* what ended the run: "" or the kind of the error
    firstDocument   \* what the first run left in the file

vars == <<roots, run, pc, i, allMetrics, file, created, err, firstDocument>>

NoFile == [exists |-> FALSE, content |-> <<>>]

Init ==
    /\ roots \in Inputs
    /\ run = 1
    /\ pc = "scan"
    /\ i = 1
    /\ allMetrics = <<>>
    /\ file = NoFile
    /\ created = FALSE
    /\ err = ""
    /\ firstDocument = <<>>

\* getPackages: every file is parsed before any is scanned; packages named
\* *_test are left out.
RECURSIVE nonTestFiles(_)
nonTestFiles(root) ==
    IF root = <<>> THEN <<>>
    ELSE IF Len(Files[Head(root)].Pkg) >= 5
            /\ SubSeq(Files[Head(root)].Pkg, Len(Files[Head(root)].Pkg) - 4,
                      Len(Files[Head(root)].Pkg)) = "_test"
    THEN nonTestFiles(Tail(root))
    ELSE <<Head(root)>> \o nonTestFiles(Tail(root))

getPackages(root) ==
    IF \E n \in 1..Len(root) : ~Files[root[n]].Parses
    THEN Fatal("ParseFailure")
    ELSE Ok(nonTestFiles(root))

\* The orders in which the range loops over the map of packages and over
\* the map of a package's files can enumerate the files: any order that
\* keeps the files of a package together.
EnumerationOrders(fs) ==
    LET n == Len(fs)
        perms == {p \in [1..n -> 1..n] : \A a, b \in 1..n : a # b => p[a] # p[b]}
        together(o) == \A a, b, c \in 1..n :
                          (a < b /\ b < c /\ Files[o[a]].Pkg = Files[o[c]].Pkg)
                              => Files[o[b]].Pkg = Files[o[a]].Pkg
    IN  {o \in {[k \in 1..n |-> fs[p[k]]] : p \in perms} : together(o)}

\* One iteration of the loop over the roots
ScanRoot ==
    /\ pc = "scan"
    /\ LET packages == getPackages(roots[i])
       IN  IF packages.err # ""
           THEN /\ pc' = "fatal"
                /\ err' = packages.err
                /\ UNCHANGED <<i, allMetrics>>
           ELSE \E order \in EnumerationOrders(packages.val) :
                  LET found == getMetricsFromPackages([k \in 1..Len(order) |-> Files[order[k]]])
                  IN  IF found.err # ""
                      THEN /\ pc' = "fatal"
                           /\ err' = found.err
                           /\ UNCHANGED <<i, allMetrics>>
                      ELSE /\ allMetrics' = allMetrics \o found.val
                           /\ i' = i + 1
                           /\ pc' = IF i = Len(roots) THEN "synthesize" ELSE "scan"
                           /\ err' = err
    /\ UNCHANGED <<roots, run, file, created, firstDocument>>

AddPatternBasedMetrics ==
    /\ pc = "synthesize"
    /\ allMetrics' = addPatternBasedMetrics(allMetrics)
    /\ pc' = "dedupe"
    /\ UNCHANGED <<roots, run, i, file, created, err, firstDocument>>

Dedupe ==
    /\ pc = "dedupe"
    /\ allMetrics' = dedupe(allMetrics)
    /\ pc' = "drop"
    /\ UNCHANGED <<roots, run, i, file, created, err, firstDocument>>

Drop ==
    /\ pc = "drop"
    /\ allMetrics' = dropNoise(allMetrics)
    /\ pc' = "fold"
    /\ UNCHANGED <<roots, run, i, file, created, err, firstDocument>>

Fold ==
    /\ pc = "fold"
    /\ allMetrics' = foldMetrics(allMetrics, foldPrefixes)
    /\ pc' = "sort"
    /\ UNCHANGED <<roots, run, i, file, created, err, firstDocument>>

Sort ==
    /\ pc = "sort"
    /\ allMetrics' \in sortSlice(allMetrics)
    /\ pc' = "create"
    /\ UNCHANGED <<roots, run, i, file, created, err, firstDocument>>

\* os.Create truncates the file or fails
CreateFile ==
    /\ pc = "create"
    /\ \E ok \in BOOLEAN :
          IF ok
          THEN /\ file' = [exists |-> TRUE, content |-> <<>>]
               /\ created' = TRUE
               /\ pc' = "preamble"
               /\ err' = err
          ELSE /\ pc' = "fatal"
               /\ err' = "CreateFailure"
               /\ UNCHANGED <<file, created>>
    /\ UNCHANGED <<roots, run, i, allMetrics, firstDocument>>

WritePreamble ==
    /\ pc = "preamble"
    /\ file' = [file EXCEPT !.content = @ \o preamble]
    /\ pc' = "render"
    /\ UNCHANGED <<roots, run, i, allMetrics, created, err, firstDocument>>

Render ==
    /\ pc = "render"
    /\ LET rendered == renderMetrics(allMetrics, "", <<>>)
       IN  /\ file' = [file EXCEPT !.content = @ \o rendered.val]
           /\ err' = rendered.err
           /\ pc' = IF rendered.err = "" THEN "done" ELSE "panic"
    /\ UNCHANGED <<roots, run, i, allMetrics, created, firstDocument>>

\* The program is started again on the same arguments and unchanged sources
Rerun ==
    /\ pc = "done"
    /\ run = 1
    /\ run' = 2
    /\ firstDocument' = file.content
    /\ pc' = "scan"
    /\ i' = 1
    /\ allMetrics' = <<>>
    /\ created' = FALSE
    /\ UNCHANGED <<roots, file, err>>

Next ==
    \/ ScanRoot
    \/ AddPatternBasedMetrics
    \/ Dedupe
    \/ Drop
    \/ Fold
    \/ Sort
    \/ CreateFile
    \/ WritePreamble
    \/ Render
    \/ Rerun

Spec == Init /\ [][Next]_vars

TypeOK ==
    /\ run \in {1, 2}
    /\ pc \in {"scan", "synthesize", "dedupe", "drop", "fold", "sort", "create",
               "preamble", "render", "done", "fatal", "panic"}
    /\ i \in 1..(Len(roots) + 1)
    /\ created \in BOOLEAN

(***************************************************************************)
(* Properties.                                                             *)
(***************************************************************************)

\* The Normalizer (merge, deduplicate, exclude, fold) has run
Normalized == pc \in {"sort", "create", "preamble", "render", "done", "panic"}

Identity(m) == <<m.namespace, m.subsystem, m.name>>

Members(list) == {list[n] : n \in 1..Len(list)}

IsTestPackage(f) ==
    Len(Files[f].Pkg) >= 5
    /\ SubSeq(Files[f].Pkg, Len(Files[f].Pkg) - 4, Len(Files[f].Pkg)) = "_test"

\* Some Namespace/Subsystem/Name/Help field of an accepted constructor call
\* of file f has a key and a value expression that satisfy P.
SomeField(f, P(_, _)) ==
    \E d \in 1..Len(Files[f].Decls) :
        /\ Files[f].Decls[d].kind = "GenDecl"
        /\ Files[f].Decls[d].Tok = "VAR"
        /\ \E v \in 1..Len(Files[f].Decls[d].Values) :
              LET ce == Files[f].Decls[d].Values[v]
              IN  /\ ce.kind = "CallExpr"
                  /\ getFuncPackage(ce.Fun).err = ""
                  /\ getFuncPackage(ce.Fun).val \in {"prometheus", "opmetrics"}
                  /\ \E a \in 1..Len(ce.Args) :
                        /\ ce.Args[a].kind = "CompositeLit"
                        /\ \E e \in 1..Len(ce.Args[a].Elts) :
                              /\ ce.Args[a].Elts[e].kind = "KeyValueExpr"
                              /\ ce.Args[a].Elts[e].Key \in {"Namespace", "Subsystem", "Name", "Help"}
                              /\ P(ce.Args[a].Elts[e].Key, ce.Args[a].Elts[e].Value)

FieldOf(m, key) ==
    CASE key = "Namespace" -> m.namespace
      [] key = "Subsystem" -> m.subsystem
      [] key = "Name" -> m.name
      [] key = "Help" -> m.help

\* C1: after the whole Normalizer has run, no two records of the list share
\* the same (namespace, subsystem, name) triple.
C1_NoDuplicateIdentity ==
    Normalized =>
        \A a, b \in 1..Len(allMetrics) :
            a # b => Identity(allMetrics[a]) # Identity(allMetrics[b])

\* C2: a second run on the same unchanged input leaves the same document as
\* the first, whatever order each run enumerates packages and files in.
C2_SameDocumentOnRerun ==
    (run = 2 /\ pc = "done") => file.content = firstDocument

\* C3: the document never contains two metric blocks with the same
\* qualified name.
C3_OneBlockPerQualifiedName ==
    pc = "done" =>
        \A a, b \in 1..Len(file.content) :
            (a # b /\ file.content[a].what = "metric" /\ file.content[b].what = "metric")
                => file.content[a].text # file.content[b].text

Unmapped(key, val) ==
    \/ val.kind = "Ident" /\ val.Name \notin DOMAIN identMapping
    \/ val.kind = "SelectorExpr" /\ (val.X \o "." \o val.Sel) \notin DOMAIN identMapping

HasUnresolvedSymbol ==
    \E r \in 1..Len(roots) : \E n \in 1..Len(roots[r]) :
        ~IsTestPackage(roots[r][n]) /\ SomeField(roots[r][n], Unmapped)

\* C4: when a field value of an accepted constructor call under a scanned
\* root is an identifier or selector the symbol table does not hold, the run
\* never gets past the scan: the output file is neither created nor
\* truncated, wherever the declaration stands among the roots.
C4_UnresolvedSymbolAbortsBeforeCreate ==
    HasUnresolvedSymbol =>
        (pc \in {"scan", "fatal"} /\ ~created /\ file = NoFile)

\* The run was aborted by an unmapped identifier in the second root, after
\* the first root had been scanned
C4_Witness ==
    HasUnresolvedSymbol /\ pc = "fatal" /\ err = "UnresolvedSymbol" /\ i = 2 /\ ~created

\* C5: a run that aborts, at whatever step, has not created the output file
\* and has written nothing to it.
C5_AbortWithoutOutput ==
    pc \in {"fatal", "panic"} => ~created

Matches(m, list) ==
    m.subsystem \in Members(list) \/ qualifiedName(m) \in Members(list)

TierByPrecedence(m) ==
    IF Matches(m, deprecatedMetrics) THEN "DEPRECATED"
    ELSE IF Matches(m, stableMetrics) THEN "STABLE"
    ELSE IF Matches(m, betaMetrics) THEN "BETA"
    ELSE "ALPHA"

\* The records that are rendered, and what is written for them
RenderedRecords == SelectSeq(allMetrics, LAMBDA m : qualifiedName(m) # "")
BlockWrites == SelectSeq(file.content, LAMBDA w : w.what \in {"metric", "stability"})

\* C6: every rendered record gets exactly one stability line, whose tier is
\* the first match in the order deprecated > stable > beta > alpha on its
\* subsystem or qualified name; a record matching the deprecated set is never
\* STABLE or BETA, a record matching no set is ALPHA.
C6_OneStabilityLineByPrecedence ==
    pc = "done" =>
        /\ Len(BlockWrites) = 2 * Len(RenderedRecords)
        /\ \A j \in 1..Len(RenderedRecords) :
              LET m == RenderedRecords[j]
                  heading == BlockWrites[2 * j - 1]
                  line == BlockWrites[2 * j]
              IN  /\ heading.what = "metric"
                  /\ heading.text = "### " \o Backquote \o qualifiedName(m) \o Backquote \o "\n"
                  /\ line.what = "stability"
                  /\ \E t \in {"DEPRECATED", "STABLE", "BETA", "ALPHA"} :
                        /\ line.text = "- Stability Level: " \o t \o "\n"
                        /\ t = TierByPrecedence(m)
                        /\ Matches(m, deprecatedMetrics) => t \notin {"STABLE", "BETA"}
                        /\ (~Matches(m, deprecatedMetrics) /\ ~Matches(m, stableMetrics)
                            /\ ~Matches(m, betaMetrics)) => t = "ALPHA"

\* A document with all four tiers, one of them for a record that matches
\* both the deprecated and the beta set
C6_Witness ==
    /\ pc = "done"
    /\ \A t \in {"DEPRECATED", "STABLE", "BETA", "ALPHA"} :
          \E k \in 1..Len(BlockWrites) :
              BlockWrites[k].text = "- Stability Level: " \o t \o "\n"
    /\ \E j \in 1..Len(RenderedRecords) :
          Matches(RenderedRecords[j], deprecatedMetrics) /\ Matches(RenderedRecords[j], betaMetrics)

\* The folding step turns every record with empty subsystem and a name
\* "<prefix>_<rest>", for a prefix of the given set, into subsystem = prefix
\* and name = rest, once, and leaves every other record as it is.
FoldsExactlyOnce(prefixes) ==
    pc = "fold" =>
        /\ Len(allMetrics') = Len(allMetrics)
        /\ \A n \in 1..Len(allMetrics) :
              LET m == allMetrics[n]
                  eligible == {p \in prefixes : m.subsystem = "" /\ HasPrefix(m.name, p \o "_")}
              IN  IF eligible # {}
                  THEN \E p \in eligible :
                          allMetrics'[n] = [namespace |-> m.namespace, subsystem |-> p,
                                            name |-> SubSeq(m.name, Len(p) + 2, Len(m.name)),
                                            help |-> m.help]
                  ELSE allMetrics'[n] = m

KnownPrefixes == {"controller_runtime", "aws_sdk_go", "client_go", "leader_election"}

\* C7 (as stated): folding is applied exactly once per eligible record, and a
\* record named workqueue_depth with empty subsystem becomes
\* {subsystem: "workqueue", name: "depth"}.
C7_FoldsWorkqueueToo == [][FoldsExactlyOnce(KnownPrefixes \cup {"workqueue"})]_vars

\* C7 (amended): folding is applied exactly once per record with empty
\* subsystem whose name starts with "<prefix>_" for a prefix of
\* controller_runtime, aws_sdk_go, client_go, leader_election: it ends with
\* subsystem = prefix and name = rest and no later prefix folds it again;
\* client_go_request_total becomes {client_go, request_total}, and every other
\* record, workqueue_depth with empty subsystem included, is left unchanged.
C7_FoldsKnownPrefixesOnce == [][FoldsExactlyOnce(KnownPrefixes)]_vars

\* After the folding step: a folded library metric, a name folded by its
\* first prefix only, and workqueue_depth still without a subsystem
C7_Witness ==
    /\ pc = "sort"
    /\ \E n \in 1..Len(allMetrics) :
          Identity(allMetrics[n]) = <<"", "client_go", "request_total">>
    /\ \E n \in 1..Len(allMetrics) :
          Identity(allMetrics[n]) = <<"", "controller_runtime", "client_go_y">>
    /\ \E n \in 1..Len(allMetrics) :
          Identity(allMetrics[n]) = <<"", "", "workqueue_depth">>

\* The string a field value stands for: a literal's text between its
\* delimiters, a symbol's entry in the table, the value inside parentheses,
\* the concatenation of the two sides of a "+".
RECURSIVE Denotes(_)
Denotes(val) ==
    CASE val.kind = "BasicLit" -> SubSeq(val.Value, 2, Len(val.Value) - 1)
      [] val.kind = "Ident" -> identMapping[val.Name]
      [] val.kind = "SelectorExpr" -> identMapping[val.X \o "." \o val.Sel]
      [] val.kind = "ParenExpr" -> Denotes(val.X)
      [] val.kind = "BinaryExpr" -> Denotes(val.X) \o Denotes(val.Y)

\* val is built from string literals, symbols of the table (when allowed),
\* "+" and parentheses (when allowed)
RECURSIVE BuiltFrom(_, _, _)
BuiltFrom(val, symbols, parens) ==
    CASE val.kind = "BasicLit" -> TRUE
      [] val.kind = "Ident" -> symbols /\ val.Name \in DOMAIN identMapping
      [] val.kind = "SelectorExpr" -> symbols /\ (val.X \o "." \o val.Sel) \in DOMAIN identMapping
      [] val.kind = "ParenExpr" -> parens /\ BuiltFrom(val.X, symbols, parens)
      [] val.kind = "BinaryExpr" -> BuiltFrom(val.X, symbols, parens) /\ BuiltFrom(val.Y, symbols, parens)
      [] OTHER -> FALSE

IsParenthesized(val) ==
    val.kind = "BinaryExpr" /\ (val.X.kind = "ParenExpr" \/ val.Y.kind = "ParenExpr")

\* The scan of the only file f does not abort, and the record it yields
\* holds, for every field, the string its value stands for.
ResolvesFields(f) ==
    /\ pc # "fatal"
    /\ pc = "synthesize" =>
          ~SomeField(f, LAMBDA key, val :
              \A n \in 1..Len(allMetrics) : FieldOf(allMetrics[n], key) # Denotes(val))

\* C8: "a" + ("b" + "c") and ("a" + "b") + "c", with their parenthesis
\* nodes, both resolve without error to the same string "abc".
C8_ConcatenationAssociative ==
    \A f \in 1..Len(Files) :
        ( /\ roots = <<<<f>>>>
          /\ ~SomeField(f, LAMBDA key, val : ~BuiltFrom(val, FALSE, TRUE))
          /\ SomeField(f, LAMBDA key, val : IsParenthesized(val)) )
            => ResolvesFields(f)

\* C9: a concatenation of resolvable sub-values (string literals, symbols of
\* the table, nested concatenations) resolves to the concatenation of their
\* resolved forms.
C9_ConcatenationOfResolvables ==
    \A f \in 1..Len(Files) :
        ( /\ roots = <<<<f>>>>
          /\ ~SomeField(f, LAMBDA key, val : ~BuiltFrom(val, TRUE, FALSE))
          /\ SomeField(f, LAMBDA key, val : val.kind = "BinaryExpr") )
            => ResolvesFields(f)

HasNoisePrefix(name) ==
    \E p \in {"rest_client", "certwatcher_read", "controller_runtime_webhook"} :
        HasPrefix(name, p)

\* C10 (as stated): after deduplicate, exclude and prefix folding have run, no
\* record that reaches the Renderer has a name starting with a noise prefix.
C10_NoNoiseNameReachesRenderer ==
    Normalized => \A n \in 1..Len(allMetrics) : ~HasNoisePrefix(allMetrics[n].name)

\* C10 (amended): every record whose name starts with a noise prefix when the
\* exclude step runs is dropped: right after that step no record has such a
\* name, and a record that reaches the Renderer has one only if prefix folding
\* produced it (its subsystem is a folding prefix and "<subsystem>_<name>", its
\* name before folding, does not start with a noise prefix).
C10_NoiseDroppedBeforeFolding ==
    /\ pc = "fold" => \A n \in 1..Len(allMetrics) : ~HasNoisePrefix(allMetrics[n].name)
    /\ Normalized =>
          \A n \in 1..Len(allMetrics) :
              HasNoisePrefix(allMetrics[n].name) =>
                  /\ allMetrics[n].subsystem \in KnownPrefixes
                  /\ ~HasNoisePrefix(allMetrics[n].subsystem \o "_" \o allMetrics[n].name)

\* The input held rest_client_requests_total, which is gone, and
\* client_go_rest_client_x, which reaches the Renderer as rest_client_x
C10_Witness ==
    /\ Normalized
    /\ \E r \in 1..Len(roots) : \E n \in 1..Len(roots[r]) : roots[r][n] = 7
    /\ \E n \in 1..Len(allMetrics) :
          Identity(allMetrics[n]) = <<"", "client_go", "rest_client_x">>
    /\ \A n \in 1..Len(allMetrics) : allMetrics[n].name # "rest_client_requests_total"

\* The metric headings of the document, in order
MetricHeadings == SelectSeq(file.content, LAMBDA w : w.what = "metric")

\* C11: in the rendered document records appear in non-increasing order of
\* subsystem priority (0 for a subsystem the table does not list) and, among
\* records of equal priority, in non-increasing lexicographic order of
\* qualified name; every record with an empty subsystem precedes every record
\* with a non-empty subsystem.
C11_DocumentInPriorityThenNameOrder ==
    pc = "done" =>
        /\ Len(MetricHeadings) = Len(RenderedRecords)
        /\ \A j \in 1..Len(RenderedRecords) :
              MetricHeadings[j].text =
                  "### " \o Backquote \o qualifiedName(RenderedRecords[j]) \o Backquote \o "\n"
        /\ \A j \in 1..(Len(RenderedRecords) - 1) :
              LET a == RenderedRecords[j]
                  b == RenderedRecords[j + 1]
              IN  /\ subSystemSortOrder(a.subsystem) >= subSystemSortOrder(b.subsystem)
                  /\ subSystemSortOrder(a.subsystem) = subSystemSortOrder(b.subsystem)
                        => ~StrGreater(qualifiedName(b), qualifiedName(a))
        /\ \A j, k \in 1..Len(RenderedRecords) :
              (j < k /\ RenderedRecords[k].subsystem = "") => RenderedRecords[j].subsystem = ""

\* A document with records without a subsystem, records of a listed positive
\* and a listed negative priority and of an unlisted subsystem, and two
\* neighbours of equal priority and different qualified names
C11_Witness ==
    /\ pc = "done"
    /\ \E j \in 1..Len(RenderedRecords) : RenderedRecords[j].subsystem = ""
    /\ \E j \in 1..Len(RenderedRecords) : subSystemSortOrder(RenderedRecords[j].subsystem) = 10
    /\ \E j \in 1..Len(RenderedRecords) :
          RenderedRecords[j].subsystem = "ec2nodeclass"
    /\ \E j \in 1..Len(RenderedRecords) : subSystemSortOrder(RenderedRecords[j].subsystem) < 0
    /\ \E j \in 1..(Len(RenderedRecords) - 1) :
          /\ subSystemSortOrder(RenderedRecords[j].subsystem) =
                 subSystemSortOrder(RenderedRecords[j + 1].subsystem)
          /\ RenderedRecords[j].subsystem # RenderedRecords[j + 1].subsystem
          /\ StrGreater(qualifiedName(RenderedRecords[j]), qualifiedName(RenderedRecords[j + 1]))

\* The level-2 headings of the document, in order
TitleHeadings == SelectSeq(file.content, LAMBDA w : w.what = "title")

\* C12: the document has one level-2 heading per distinct subsystem title: a
\* heading is written only when the title of a record with non-empty
\* subsystem differs from the previous heading, every such record's title has
\* its heading, and no title's heading appears more than once.
C12_OneHeadingPerTitle ==
    pc = "done" =>
        /\ \A j \in 1..(Len(TitleHeadings) - 1) :
              TitleHeadings[j].text # TitleHeadings[j + 1].text
        /\ \A n \in 1..Len(allMetrics) :
              allMetrics[n].subsystem # "" =>
                  \E j \in 1..Len(TitleHeadings) :
                      TitleHeadings[j].text =
                          "## " \o subsystemTitle(allMetrics[n].subsystem).val \o " Metrics\n"
        /\ \A j, k \in 1..Len(TitleHeadings) :
              j # k => TitleHeadings[j].text # TitleHeadings[k].text

\* The called function of a call with its parentheses, pointer dereferences
\* and generic instantiations taken off
RECURSIVE Unwrapped(_)
Unwrapped(fun) ==
    IF fun.kind \in {"ParenExpr", "StarExpr", "IndexExpr"} THEN Unwrapped(fun.X) ELSE fun

\* The qualifier of the called function: the package or receiver name in
\* front of a selected name, the name itself of an unqualified function, none
\* for a closure.
Qualifier(fun) ==
    CASE Unwrapped(fun).kind = "SelectorExpr" -> Unwrapped(fun).X
      [] Unwrapped(fun).kind = "Ident" -> Unwrapped(fun).Name
      [] OTHER -> ""

\* The positions <<r, n, d, v>> of the calls that initialize top-level
\* variables in the scanned files of the roots
InitializerCalls ==
    UNION {UNION {UNION {{<<r, n, d, v>> :
                             v \in {v \in 1..Len(Files[roots[r][n]].Decls[d].Values) :
                                       Files[roots[r][n]].Decls[d].Values[v].kind = "CallExpr"}} :
                         d \in {d \in 1..Len(Files[roots[r][n]].Decls) :
                                   /\ Files[roots[r][n]].Decls[d].kind = "GenDecl"
                                   /\ Files[roots[r][n]].Decls[d].Tok = "VAR"}} :
                  n \in {n \in 1..Len(roots[r]) : ~IsTestPackage(roots[r][n])}} :
           r \in 1..Len(roots)}

CallAt(p) == Files[roots[p[1]][p[2]]].Decls[p[3]].Values[p[4]]

\* The composite-literal arguments <<r, n, d, v, a>> of the calls that
\* satisfy P
LiteralsOfCalls(P(_)) ==
    UNION {{p \o <<a>> : a \in {a \in 1..Len(CallAt(p).Args) :
                                  CallAt(p).Args[a].kind = "CompositeLit"}} :
           p \in {p \in InitializerCalls : P(CallAt(p))}}

\* The Name fields, given as string literals, of composite literals
NamesOf(literals) ==
    UNION {{Denotes(e.Value) :
               e \in {e \in Members(CallAt(p).Args[p[5]].Elts) :
                         e.kind = "KeyValueExpr" /\ e.Key = "Name" /\ e.Value.kind = "BasicLit"}} :
           p \in literals}

IsConstructorCall(ce) == Qualifier(ce.Fun) \in {"prometheus", "opmetrics"}
IsOtherCall(ce) == ~IsConstructorCall(ce)

RECURSIVE Unescape(_)
Unescape(s) ==
    IF s = "" THEN ""
    ELSE IF Head(s) = "\\" /\ Len(s) >= 2 THEN CharAt(s, 2) \o Unescape(SubSeq(s, 3, Len(s)))
    ELSE Head(s) \o Unescape(Tail(s))

\* The content of a string literal: the text between its delimiters, with
\* the escapes of an interpreted literal resolved
LiteralContent(token) ==
    IF Head(token) = Backquote THEN SubSeq(token, 2, Len(token) - 1)
    ELSE Unescape(SubSeq(token, 2, Len(token) - 1))

\* C14: a field value that is a string literal (double-quoted, raw
\* back-quoted, or with an escaped quote as its first or last character) is
\* stored as the literal's content: no quote character of the literal is kept
\* and no character of the content is lost.
C14_LiteralStoredAsContent ==
    pc = "synthesize" =>
        \A p \in LiteralsOfCalls(IsConstructorCall) :
            \A e \in Members(CallAt(p).Args[p[5]].Elts) :
                (e.kind = "KeyValueExpr" /\ e.Key \in metricKeys /\ e.Value.kind = "BasicLit")
                    => \E n \in 1..Len(allMetrics) :
                           FieldOf(allMetrics[n], e.Key) = LiteralContent(e.Value.Value)

Capitalized(word) ==
    IF word = "" THEN "" ELSE ToUpper(SubSeq(word, 1, 1)) \o SubSeq(word, 2, Len(word))

\* The title the words of a subsystem give: aws and sdk in upper case, every
\* other word with its first letter capitalized, joined by single spaces
ExpectedTitle(subsystem) ==
    LET words == Split(subsystem, "_")
    IN  Join([k \in 1..Len(words) |->
                 IF words[k] \in {"aws", "sdk"} THEN ToUpper(words[k]) ELSE Capitalized(words[k])],
             " ")

\* C15: for every non-empty subsystem outside the alias table, one with a
\* leading, trailing or doubled "_" included, title derivation ends normally
\* and gives the words between the "_", aws and sdk upper-cased and every
\* other word capitalized, joined by single spaces.
C15_TitleDerivationTotal ==
    /\ pc # "panic"
    /\ pc = "done" =>
          \A n \in 1..Len(allMetrics) :
              (allMetrics[n].subsystem # "" /\ allMetrics[n].subsystem \notin DOMAIN subsystemMap)
                  => \E j \in 1..Len(TitleHeadings) :
                         TitleHeadings[j].text =
                             "## " \o ExpectedTitle(allMetrics[n].subsystem) \o " Metrics\n"

\* The records the files of root r yield, and the synthesized catalog
ScannedOf(r) ==
    Members(getMetricsFromPackages(
                [k \in 1..Len(nonTestFiles(roots[r])) |-> Files[nonTestFiles(roots[r])[k]]]).val)

Catalog == Members(addPatternBasedMetrics(<<>>))

MergedRecords == UNION {ScannedOf(r) : r \in 1..Len(roots)} \cup Catalog

\* The records of an identity that come first in the merged order: those of
\* the first root that has the identity or, when no root has it, the
\* catalog's
FirstOccurrences(id) ==
    LET having == {r \in 1..Len(roots) : \E m \in ScannedOf(r) : Identity(m) = id}
    IN  IF having # {}
        THEN {m \in ScannedOf(CHOOSE r \in having : \A q \in having : r <= q) : Identity(m) = id}
        ELSE {m \in Catalog : Identity(m) = id}

C17_FoldKeepsQualifiedName ==
    [][pc = "fold" =>
        \A n \in 1..Len(allMetrics) :
            (allMetrics[n].subsystem = ""
             /\ \E p \in KnownPrefixes : HasPrefix(allMetrics[n].name, p \o "_"))
                => /\ qualifiedName(allMetrics'[n]) = qualifiedName(allMetrics[n])
                   /\ allMetrics'[n].namespace = allMetrics[n].namespace
                   /\ allMetrics'[n].help = allMetrics[n].help]_vars

\* C18: the scan aborts only for a parse failure, an unresolved symbol or an
\* unsupported field-value shape: an initializer call that is not a
\* recognized metric constructor is skipped, whatever the shape of its
\* called-function expression.
C18_ScanAbortsOnlyForDocumentedKinds ==
    (pc = "fatal" /\ err # "CreateFailure")
        => err \in {"ParseFailure", "UnresolvedSymbol", "UnsupportedValueShape"}

\* C19: deduplication never merges records of different identity: two
\* records whose triples differ get different dedupe keys and both survive
\* the dedupe step, also when a field holds the character "/".
C19_DifferentIdentitiesSurviveDedupe ==
    pc = "drop" =>
        /\ \A a, b \in MergedRecords :
              Identity(a) # Identity(b) => dedupeKey(a) # dedupeKey(b)
        /\ \A m \in MergedRecords :
              \E n \in 1..Len(allMetrics) : Identity(allMetrics[n]) = Identity(m)
====
